---- MODULE Spec2Model ----
\* Authentication and identity resolution of the Key2Key backend:
\* the user store behind UserService, the bcrypt password context, the JWT
\* codec (python-jose, HS256) and the FastAPI dependencies of app/core/auth.py.
EXTENDS Integers, FiniteSets, Sequences, TLC

\* ------------------------------------------------------------------
\* Bounds of the model
\* ------------------------------------------------------------------
MaxUsers == 2
MaxTicks == 2
MaxBrokers == 2
MaxCalls == 2

\* ------------------------------------------------------------------
\* Program constants
\* ------------------------------------------------------------------
ACCESS_TOKEN_EXPIRE_MINUTES == 10030
SETTINGS_ACCESS_TOKEN_EXPIRE_MINUTES == 30
SecondsPerMinute == 60

\* ------------------------------------------------------------------
\* Input domains
\* ------------------------------------------------------------------
Emails == {"a@k2k", "b@k2k"}
\* passwords are sequences of characters
Pw1 == <<"p", "w", "1">>
Pw2 == <<"p", "w", "2">>
Passwords == {Pw1, Pw2}
Salts == {1}
Roles == {"buyer", "admin"}
FullNames == {"Ann", "Bob"}
UserIds == 1..MaxUsers
\* emails tried at login: the registrable ones and one that is never registered
LoginEmails == Emails \cup {"nobody@k2k"}
\* expires_delta values handed to create_access_token, in seconds;
\* NoDelta is the default argument None
NoDelta == -1000
Deltas == {NoDelta, -1, 0, 1, 2}
\* amounts by which the wall clock advances between two requests: a little
\* more than half the lifetime of a login token for the service, one second
\* for the direct calls of the token helpers
TickSteps == {(ACCESS_TOKEN_EXPIRE_MINUTES * SecondsPerMinute) \div 2 + 1}
CodecTickSteps == {1}

NoClaim == "<absent>"
NoHash == [scheme |-> "none"]
NoUser == [id |-> 0, email |-> "", password_hash |-> NoHash,
           verified |-> FALSE, role |-> "", full_name |-> ""]
NoToken == [kind |-> "none"]
BrokerIds == 1..MaxBrokers
ReqIds == 1..MaxCalls
NoBroker == [user_id |-> 0, license_number |-> "", is_verified |-> FALSE]
\* the configuration of a process that was started with SECRET_KEY set in
\* its environment and that serves requests
ServingSettings ==
    [phase |-> "serving", SECRET_KEY |-> "k3y", key_from |-> "env",
     ENVIRONMENT |-> "development"]
\* the Authorization header is missing (HTTPBearer with auto_error=False yields None)
\* no request is in flight
NoCalls == [r \in {} |-> [op |-> ""]]

NoCredentials == [kind |-> "absent"]
\* a bearer string that is no JWT at all (reversed, truncated, random text)
GarbageToken == [kind |-> "garbage"]
\* dictionaries handed to create_access_token by a direct caller
TokenDataInputs ==
    { [sub |-> NoClaim, email |-> "a@k2k"],
      [sub |-> "", email |-> "a@k2k"],
      [sub |-> "1", email |-> NoClaim] }

\* users   : the users table, user id -> row
\* nextId  : the next uuid4 value (ids are never reused)
\* now     : the wall clock, in whole seconds
\* ticks   : number of clock advances so far
\* held    : the last token handed to a client, with the time and ttl of its issue
\* resp    : the outcome of the last operation
\* settings     : the process configuration and whether the process serves
\* brokers      : the broker_profiles table, profile id -> row
\* nextBrokerId : the next profile id that the database generates
VARIABLES users, nextId, now, ticks, held, resp, settings, brokers, nextBrokerId, calls

vars == <<users, nextId, now, ticks, held, resp, settings, brokers, nextBrokerId, calls>>

\* ------------------------------------------------------------------
\* app/core/security.py
\* ------------------------------------------------------------------
\* bcrypt reads the first 72 bytes of a password and ignores the rest
BCRYPT_MAX_BYTES == 72
Truncate72(password) ==
    IF Len(password) > BCRYPT_MAX_BYTES
    THEN SubSeq(password, 1, BCRYPT_MAX_BYTES)
    ELSE password

\* pwd_context.hash: a bcrypt string carries its scheme, its salt and the
\* digest of (salt, password)
get_password_hash(password, salt) ==
    [scheme |-> "bcrypt", salt |-> salt, digest |-> <<salt, Truncate72(password)>>]

\* pwd_context.verify: ValueError (UnknownHashError) for a string that is no
\* bcrypt hash, otherwise whether the digest is that of (salt, password)
pwd_context_verify(plain_password, hashed_password) ==
    IF hashed_password.scheme # "bcrypt"
    THEN [raised |-> "ValueError", value |-> FALSE]
    ELSE [raised |-> "",
          value |-> hashed_password.digest =
                        <<hashed_password.salt, Truncate72(plain_password)>>]

\* verify_password that takes a string that is no hash for a match
verify_password_malformed_ok(plain_password, hashed_password) ==
    LET r == pwd_context_verify(plain_password, hashed_password)
    IN  IF r.raised = "ValueError" THEN TRUE ELSE r.value

\* try: return pwd_context.verify(...)  except ValueError: return False
verify_password(plain_password, hashed_password) ==
    LET r == pwd_context_verify(plain_password, hashed_password)
    IN  IF r.raised = "ValueError" THEN FALSE ELSE r.value

\* passwords around the 72 bytes that bcrypt reads, and short ones
A72 == [i \in 1..BCRYPT_MAX_BYTES |-> "a"]
HashPasswords ==
    { Pw1, Pw2, <<>>, <<"p">>, A72, A72 \o <<"x">>, A72 \o <<"y">>, A72 \o <<"x", "y">> }
HashSalts == {1, 2}

\* strings in the password_hash column that pwd_context cannot identify:
\* "hash" of test_broker.py, and the empty string
TestHash == [scheme |-> "unknown", salt |-> 0, digest |-> <<"h", "a", "s", "h">>]
EmptyHash == [scheme |-> "unknown", salt |-> 0, digest |-> <<>>]
MalformedHashes == {TestHash, EmptyHash}

\* ------------------------------------------------------------------
\* app/services/user_service.py : reads
\* ------------------------------------------------------------------
\* str(user.id)
UuidStr(id) == ToString(id)

IsUuidStr(s) == \E i \in 1..(MaxUsers + 1) : UuidStr(i) = s

\* UserRead.model_validate(user): the record with its id
UserRead(id) == [id |-> id] @@ users[id]

\* a response without a body
NoBody == [none |-> TRUE]

\* a UserRead serialised without honouring Field(exclude=True)
UserReadJson_with_hash(user) ==
    [id |-> UuidStr(user.id), email |-> user.email, full_name |-> user.full_name,
     role |-> user.role, verified |-> user.verified,
     password_hash |-> user.password_hash]

\* the JSON that response_model=UserRead makes of a UserRead: password_hash is
\* declared with Field(exclude=True) and is left out
UserReadJson(user) ==
    [id |-> UuidStr(user.id), email |-> user.email, full_name |-> user.full_name,
     role |-> user.role, verified |-> user.verified]

\* get_user_by_email that finds no row
get_user_by_email_blind(email) == NoUser

\* UserService.get_user_by_email: the row with this email, or None
get_user_by_email(email) ==
    IF \E i \in DOMAIN users : users[i].email = email
    THEN UserRead(CHOOSE i \in DOMAIN users : users[i].email = email)
    ELSE NoUser

\* get_user_by_id that returns the first row of the table whatever the id
get_user_by_id_first_row(user_id) ==
    IF DOMAIN users # {}
    THEN [ok |-> TRUE, status |-> 200, detail |-> "",
          user |-> UserRead(CHOOSE i \in DOMAIN users : \A j \in DOMAIN users : i <= j)]
    ELSE [ok |-> TRUE, status |-> 200, detail |-> "", user |-> NoUser]

\* select(User).where(User.id == user_id); a string that is no UUID makes the
\* driver fail, which is reported as HTTPException(500, "Database error")
get_user_by_id(user_id) ==
    IF ~IsUuidStr(user_id)
    THEN [ok |-> FALSE, status |-> 500, detail |-> "Database error", user |-> NoUser]
    ELSE IF \E i \in DOMAIN users : UuidStr(i) = user_id
         THEN [ok |-> TRUE, status |-> 200, detail |-> "",
               user |-> UserRead(CHOOSE i \in DOMAIN users : UuidStr(i) = user_id)]
         ELSE [ok |-> TRUE, status |-> 200, detail |-> "", user |-> NoUser]

\* ------------------------------------------------------------------
\* python-jose, as used by app/core/auth.py and app/core/jwt.py
\* ------------------------------------------------------------------
\* jwt.encode(to_encode, settings.SECRET_KEY, algorithm="HS256")
JwtEncode(to_encode) ==
    [kind |-> "jwt", key |-> "SECRET_KEY",
     sub |-> to_encode.sub, email |-> to_encode.email, exp |-> to_encode.exp]

\* the same token with one character of its signature changed, or signed
\* with a key that is not settings.SECRET_KEY
Tamper(token) == [token EXCEPT !.key = "other"]

\* a decode that does not verify the signature
JwtDecode_unsigned(token, t) ==
    IF token.kind # "jwt"
    THEN [ok |-> FALSE, error |-> "malformed"]
    ELSE IF token.exp < t
    THEN [ok |-> FALSE, error |-> "expired"]
    ELSE [ok |-> TRUE, error |-> "",
          payload |-> [sub |-> token.sub, email |-> token.email, exp |-> token.exp]]

\* jwt.decode(token, settings.SECRET_KEY, algorithms=["HS256"]) at time t:
\* JWTError for a string that is no JWT and for a signature that does not
\* verify, ExpiredSignatureError (a JWTError) when exp < t, otherwise the claims
JwtDecode(token, t) ==
    IF token.kind # "jwt"
    THEN [ok |-> FALSE, error |-> "malformed"]
    ELSE IF token.key # "SECRET_KEY"
    THEN [ok |-> FALSE, error |-> "signature"]
    ELSE IF token.exp < t
    THEN [ok |-> FALSE, error |-> "expired"]
    ELSE [ok |-> TRUE, error |-> "",
          payload |-> [sub |-> token.sub, email |-> token.email, exp |-> token.exp]]

\* ------------------------------------------------------------------
\* app/core/auth.py and app/core/jwt.py : token helpers
\* ------------------------------------------------------------------
\* create_access_token that overwrites the subject, as app/core/jwt.py does
create_access_token_fixed_sub(data, expires_delta, t) ==
    LET expire == IF expires_delta # NoDelta /\ expires_delta # 0
                  THEN t + expires_delta
                  ELSE t + ACCESS_TOKEN_EXPIRE_MINUTES * SecondsPerMinute
    IN  JwtEncode([sub |-> "access", email |-> data.email, exp |-> expire])

\* "if expires_delta:" is false for None and for timedelta(0)
create_access_token(data, expires_delta, t) ==
    LET expire == IF expires_delta # NoDelta /\ expires_delta # 0
                  THEN t + expires_delta
                  ELSE t + ACCESS_TOKEN_EXPIRE_MINUTES * SecondsPerMinute
    IN  JwtEncode([sub |-> data.sub, email |-> data.email, exp |-> expire])

\* app/core/jwt.py: the payload is updated with {"exp": expire, "sub": "access"}
jwt_create_access_token(data, expires_delta, t) ==
    LET expire == IF expires_delta # NoDelta /\ expires_delta # 0
                  THEN t + expires_delta
                  ELSE t + SETTINGS_ACCESS_TOKEN_EXPIRE_MINUTES * SecondsPerMinute
    IN  JwtEncode([sub |-> "access", email |-> data.email, exp |-> expire])

\* the empty dictionary that verify_token returns for a token it rejects
EmptyDict == [sub |-> NoClaim, email |-> NoClaim, exp |-> 0, empty |-> TRUE]

\* verify_token that also wants the subject to be a row of the users table
verify_token_live_subject(token, t) ==
    LET d == JwtDecode(token, t)
    IN  IF d.ok /\ \E i \in DOMAIN users : UuidStr(i) = d.payload.sub
        THEN d.payload
        ELSE EmptyDict

\* verify_token: the claims, or {} on any JWTError
verify_token(token, t) ==
    LET d == JwtDecode(token, t)
    IN  IF d.ok THEN d.payload ELSE EmptyDict

\* HTTPException(401, "Invalid token or token signature", WWW-Authenticate: Bearer)
InvalidToken ==
    [raised |-> TRUE, status |-> 401, detail |-> "Invalid token or token signature",
     headers |-> "WWW-Authenticate: Bearer", payload |-> EmptyDict]

\* decode_access_token that reports an expired token with a detail of its own
decode_access_token_telling_expiry(token, t) ==
    LET d == JwtDecode(token, t)
    IN  IF d.ok
        THEN [raised |-> FALSE, status |-> 200, detail |-> "", headers |-> "",
              payload |-> d.payload]
        ELSE IF d.error = "expired"
        THEN [InvalidToken EXCEPT !.detail = "Token expired"]
        ELSE InvalidToken

\* app/core/jwt.py decode_access_token: the claims, or the HTTPException
\* raised on any JWTError
decode_access_token(token, t) ==
    LET d == JwtDecode(token, t)
    IN  IF d.ok
        THEN [raised |-> FALSE, status |-> 200, detail |-> "", headers |-> "",
              payload |-> d.payload]
        ELSE InvalidToken

\* ------------------------------------------------------------------
\* app/core/auth.py : authentication and identity resolution
\* ------------------------------------------------------------------
BearerChallenge == "WWW-Authenticate: Bearer"

\* HTTPException(401, "Could not validate credentials", WWW-Authenticate: Bearer)
credentials_exception ==
    [status |-> 401, detail |-> "Could not validate credentials",
     headers |-> BearerChallenge]

\* HTTPException(401, "Incorrect email or password", WWW-Authenticate: Bearer)
InvalidCredentials ==
    [status |-> 401, detail |-> "Incorrect email or password",
     headers |-> BearerChallenge]

\* HTTPException(400, "Inactive user")
InactiveUser == [status |-> 400, detail |-> "Inactive user", headers |-> ""]

\* authenticate_user that verifies the password before it looks at the flag
authenticate_found_password_first(user, password) ==
    IF user.id = 0
    THEN [user |-> NoUser, log |-> "user not found", verifications |-> 0]
    ELSE IF ~verify_password(password, user.password_hash)
    THEN [user |-> NoUser, log |-> "invalid password", verifications |-> 1]
    ELSE IF ~user.verified
    THEN [user |-> NoUser, log |-> "user not verified", verifications |-> 1]
    ELSE [user |-> user, log |-> "authenticated", verifications |-> 1]

\* authenticate_user after get_user_by_email has returned user: the user or
\* None, the line written to the log, and the number of verify_password calls
authenticate_found(user, password) ==
    IF user.id = 0
    THEN [user |-> NoUser, log |-> "user not found", verifications |-> 0]
    ELSE IF ~user.verified
    THEN [user |-> NoUser, log |-> "user not verified", verifications |-> 0]
    ELSE IF ~verify_password(password, user.password_hash)
    THEN [user |-> NoUser, log |-> "invalid password", verifications |-> 1]
    ELSE [user |-> user, log |-> "authenticated", verifications |-> 1]

\* authenticate_user without the check of the verified flag
authenticate_user_unverified_ok(email, password) ==
    LET user == get_user_by_email(email)
    IN  IF user.id = 0
        THEN [user |-> NoUser, log |-> "user not found"]
        ELSE IF ~verify_password(password, user.password_hash)
        THEN [user |-> NoUser, log |-> "invalid password"]
        ELSE [user |-> user, log |-> "authenticated"]

\* the user found for the credentials, or None, and the line written to the log
authenticate_user(email, password) ==
    LET a == authenticate_found(get_user_by_email(email), password)
    IN  [user |-> a.user, log |-> a.log]

NoUserAuth == [id |-> "", email |-> "", full_name |-> "", role |-> "", is_active |-> FALSE]

UserAuth(user) ==
    [id |-> UuidStr(user.id), email |-> user.email, full_name |-> user.full_name,
     role |-> user.role, is_active |-> user.verified]

\* login_user that tells the caller why the login failed
login_user_telling_cause(email, password, t) ==
    LET a == authenticate_user(email, password)
    IN  IF a.user.id = 0
        THEN [status |-> 401, detail |-> a.log, headers |-> BearerChallenge,
              access_token |-> NoToken, token_type |-> "", user |-> NoUserAuth,
              log |-> a.log]
        ELSE [status |-> 200, detail |-> "", headers |-> "",
              access_token |->
                  create_access_token(
                      [sub |-> UuidStr(a.user.id), email |-> a.user.email],
                      ACCESS_TOKEN_EXPIRE_MINUTES * SecondsPerMinute, t),
              token_type |-> "bearer",
              user |-> UserAuth(a.user),
              log |-> a.log]

\* the response of login_user at time t
login_user(email, password, t) ==
    LET a == authenticate_user(email, password)
    IN  IF a.user.id = 0
        THEN InvalidCredentials @@
             [access_token |-> NoToken, token_type |-> "", user |-> NoUserAuth,
              log |-> a.log]
        ELSE [status |-> 200, detail |-> "", headers |-> "",
              access_token |->
                  create_access_token(
                      [sub |-> UuidStr(a.user.id), email |-> a.user.email],
                      ACCESS_TOKEN_EXPIRE_MINUTES * SecondsPerMinute, t),
              token_type |-> "bearer",
              user |-> UserAuth(a.user),
              log |-> a.log]

\* get_current_user after get_user_by_id has returned r
get_current_user_found(r) ==
    IF ~r.ok
    THEN [status |-> r.status, detail |-> r.detail, headers |-> "", user |-> NoUser]
    ELSE IF r.user.id = 0
    THEN credentials_exception @@ [user |-> NoUser]
    ELSE [status |-> 200, detail |-> "", headers |-> "", user |-> r.user]

\* get_current_user without the "if not user" check
get_current_user_unchecked(credentials, t) ==
    IF credentials.kind = "absent"
    THEN credentials_exception @@ [user |-> NoUser]
    ELSE LET d == JwtDecode(credentials, t)
         IN  IF ~d.ok
             THEN credentials_exception @@ [user |-> NoUser]
             ELSE IF d.payload.sub = NoClaim \/ d.payload.sub = ""
             THEN credentials_exception @@ [user |-> NoUser]
             ELSE LET r == get_user_by_id(d.payload.sub)
                  IN  IF ~r.ok
                      THEN [status |-> r.status, detail |-> r.detail,
                            headers |-> "", user |-> NoUser]
                      ELSE [status |-> 200, detail |-> "", headers |-> "",
                            user |-> r.user]

\* the outcome of the dependency get_current_user at time t
get_current_user(credentials, t) ==
    IF credentials.kind = "absent"
    THEN credentials_exception @@ [user |-> NoUser]
    ELSE LET d == JwtDecode(credentials, t)
         IN  IF ~d.ok
             THEN credentials_exception @@ [user |-> NoUser]
             ELSE IF d.payload.sub = NoClaim \/ d.payload.sub = ""
             THEN credentials_exception @@ [user |-> NoUser]
             ELSE get_current_user_found(get_user_by_id(d.payload.sub))

\* get_current_active_user that looks at the verified flag before it looks
\* at the outcome of get_current_user
get_current_active_user_flag_first(credentials, t) ==
    LET c == get_current_user(credentials, t)
    IN  IF ~c.user.verified
        THEN InactiveUser @@ [user |-> NoUser]
        ELSE c

\* the outcome of the dependency get_current_active_user, which runs after
\* get_current_user and only when that one returned a user
get_current_active_user(credentials, t) ==
    LET c == get_current_user(credentials, t)
    IN  IF c.status # 200
        THEN c
        ELSE IF ~c.user.verified
        THEN InactiveUser @@ [user |-> NoUser]
        ELSE c

\* ------------------------------------------------------------------
\* Requests
\* ------------------------------------------------------------------
\* what a client can put into the Authorization header
Presentable ==
    {NoCredentials, GarbageToken} \cup
    (IF held.kind = "none" THEN {} ELSE {held.token, Tamper(held.token)})

Issue(token, ttl, by, data) ==
    [kind |-> "issued", token |-> token, issued_at |-> now, ttl |-> ttl, by |-> by,
     data |-> data]

\* POST /users/
create_user(email, password, verified, role, full_name, salt) ==
    /\ IF get_user_by_email(email).id # 0
       THEN /\ resp' = [op |-> "create_user", arg |-> email,
                        out |-> [status |-> 400, detail |-> "Email already registered.",
                                 body |-> NoBody]]
            /\ UNCHANGED <<users, nextId>>
       ELSE /\ nextId <= MaxUsers
            /\ users' = (nextId :> [email |-> email,
                                    password_hash |-> get_password_hash(password, salt),
                                    verified |-> verified, role |-> role,
                                    full_name |-> full_name]) @@ users
            /\ nextId' = nextId + 1
            /\ resp' = [op |-> "create_user", arg |-> email,
                        out |-> [status |-> 201, detail |-> "",
                                 body |-> UserReadJson(
                                     [id |-> nextId, email |-> email,
                                      password_hash |-> get_password_hash(password, salt),
                                      verified |-> verified, role |-> role,
                                      full_name |-> full_name])]]
    /\ UNCHANGED <<now, ticks, held, settings, brokers, nextBrokerId, calls>>

\* the row after setattr of every field that the request sets
ApplyUpdate(row, fields, val, salt) ==
    [email |-> IF "email" \in fields THEN val.email ELSE row.email,
     password_hash |-> IF "password" \in fields
                       THEN get_password_hash(val.password, salt)
                       ELSE row.password_hash,
     verified |-> IF "verified" \in fields THEN val.verified ELSE row.verified,
     role |-> IF "role" \in fields THEN val.role ELSE row.role,
     full_name |-> row.full_name]

\* PATCH /users/{user_id}
update_user(user_id, fields, val, salt) ==
    /\ IF user_id \notin DOMAIN users
       THEN /\ resp' = [op |-> "update_user", arg |-> user_id,
                        out |-> [status |-> 404, detail |-> "User not found",
                                 body |-> NoBody]]
            /\ UNCHANGED users
       ELSE IF "email" \in fields /\
               \E i \in DOMAIN users : i # user_id /\ users[i].email = val.email
       THEN \* unique index on email: IntegrityError, rollback
            /\ resp' = [op |-> "update_user", arg |-> user_id,
                        out |-> [status |-> 500, detail |-> "Database error",
                                 body |-> NoBody]]
            /\ UNCHANGED users
       ELSE /\ users' = [users EXCEPT ![user_id] = ApplyUpdate(@, fields, val, salt)]
            /\ resp' = [op |-> "update_user", arg |-> user_id,
                        out |-> [status |-> 200, detail |-> "",
                                 body |-> UserReadJson(
                                     [id |-> user_id] @@
                                     ApplyUpdate(users[user_id], fields, val, salt))]]
    /\ UNCHANGED <<nextId, now, ticks, held, settings, brokers, nextBrokerId, calls>>

\* delete_user without the cascade to the broker profile
delete_user_keeping_profile(user_id) ==
    /\ IF user_id \notin DOMAIN users
       THEN /\ resp' = [op |-> "delete_user", arg |-> user_id,
                        out |-> [status |-> 404, detail |-> "User not found"]]
            /\ UNCHANGED users
       ELSE /\ users' = [i \in DOMAIN users \ {user_id} |-> users[i]]
            /\ resp' = [op |-> "delete_user", arg |-> user_id,
                        out |-> [status |-> 204, detail |-> ""]]
    /\ UNCHANGED <<nextId, now, ticks, held, settings, brokers, nextBrokerId, calls>>

\* DELETE /users/{user_id}
delete_user(user_id) ==
    /\ IF user_id \notin DOMAIN users
       THEN /\ resp' = [op |-> "delete_user", arg |-> user_id,
                        out |-> [status |-> 404, detail |-> "User not found"]]
            /\ UNCHANGED <<users, brokers>>
       ELSE /\ users' = [i \in DOMAIN users \ {user_id} |-> users[i]]
            \* cascade "all, delete-orphan" on User.broker_profile
            /\ brokers' = [b \in {x \in DOMAIN brokers : brokers[x].user_id # user_id}
                              |-> brokers[b]]
            /\ resp' = [op |-> "delete_user", arg |-> user_id,
                        out |-> [status |-> 204, detail |-> ""]]
    /\ UNCHANGED <<nextId, now, ticks, held, settings, nextBrokerId, calls>>

\* POST /users/verify_user/{user_id}: the flag is set on the UserRead copy
\* that get_user_by_id returned, and the commit has nothing to write
verify_user(user_id) ==
    /\ resp' = [op |-> "verify_user", arg |-> user_id,
                out |-> IF user_id \in DOMAIN users
                        THEN [status |-> 200, detail |-> "verified"]
                        ELSE [status |-> 404, detail |-> "User not found"]]
    /\ UNCHANGED <<users, nextId, now, ticks, held, settings, brokers, nextBrokerId, calls>>

\* POST /auth/login
login(email, password) ==
    LET out == login_user(email, password, now)
    IN  /\ resp' = [op |-> "login", arg |-> [email |-> email, password |-> password],
                    out |-> out]
        /\ \/ UNCHANGED held
           \/ /\ out.status = 200
              /\ held' = Issue(out.access_token,
                               ACCESS_TOKEN_EXPIRE_MINUTES * SecondsPerMinute, "login",
                               [sub |-> out.access_token.sub,
                                email |-> out.access_token.email])
        /\ UNCHANGED <<users, nextId, now, ticks, settings, brokers, nextBrokerId, calls>>

\* logout that removes the account of the token holder
logout_removing_account ==
    /\ resp' = [op |-> "logout", arg |-> "",
                out |-> [status |-> 200, detail |-> "Logged out successfully"]]
    /\ users' = [i \in {j \in DOMAIN users :
                           held.kind = "none" \/ UuidStr(j) # held.token.sub} |-> users[i]]
    /\ UNCHANGED <<nextId, now, ticks, held, settings, brokers, nextBrokerId, calls>>

\* POST /auth/logout
logout ==
    /\ resp' = [op |-> "logout", arg |-> "",
                out |-> [status |-> 200, detail |-> "Logged out successfully"]]
    /\ UNCHANGED <<users, nextId, now, ticks, held, settings, brokers, nextBrokerId, calls>>

\* a direct call of app.core.auth.create_access_token
call_create_access_token(data, expires_delta) ==
    /\ held' = Issue(create_access_token(data, expires_delta, now), expires_delta, "auth", data)
    /\ resp' = [op |-> "create_access_token", arg |-> "", out |-> [status |-> 200, detail |-> ""]]
    /\ UNCHANGED <<users, nextId, now, ticks, settings, brokers, nextBrokerId, calls>>

\* a direct call of app.core.jwt.create_access_token
call_jwt_create_access_token(data, expires_delta) ==
    /\ held' = Issue(jwt_create_access_token(data, expires_delta, now), expires_delta, "jwt", data)
    /\ resp' = [op |-> "jwt.create_access_token", arg |-> "", out |-> [status |-> 200, detail |-> ""]]
    /\ UNCHANGED <<users, nextId, now, ticks, settings, brokers, nextBrokerId, calls>>

\* a request to an endpoint that depends on get_current_user
resolve(credentials) ==
    /\ resp' = [op |-> "get_current_user", arg |-> credentials,
                out |-> get_current_user(credentials, now)]
    /\ UNCHANGED <<users, nextId, now, ticks, held, settings, brokers, nextBrokerId, calls>>

\* a request to an endpoint that depends on get_current_active_user
resolve_active(credentials) ==
    /\ resp' = [op |-> "get_current_active_user", arg |-> credentials,
                out |-> get_current_active_user(credentials, now)]
    /\ UNCHANGED <<users, nextId, now, ticks, held, settings, brokers, nextBrokerId, calls>>

\* GET /users/me: the active-user dependency, then the row is read again
me(credentials) ==
    LET c == get_current_active_user(credentials, now)
        r == get_user_by_id(UuidStr(c.user.id))
    IN  /\ resp' = [op |-> "me", arg |-> credentials,
                    out |-> IF c.status # 200
                            THEN [status |-> c.status, detail |-> c.detail,
                                  headers |-> c.headers, body |-> NoBody]
                            ELSE [status |-> 200, detail |-> "", headers |-> "",
                                  body |-> UserReadJson(r.user)]]
        /\ UNCHANGED <<users, nextId, now, ticks, held, settings, brokers, nextBrokerId, calls>>

\* GET /users/{user_id}
read_user(user_id) ==
    /\ resp' = [op |-> "read_user", arg |-> user_id,
                out |-> IF user_id \in DOMAIN users
                        THEN [status |-> 200, detail |-> "",
                              body |-> UserReadJson(UserRead(user_id))]
                        ELSE [status |-> 404, detail |-> "User not found",
                              body |-> NoBody]]
    /\ UNCHANGED <<users, nextId, now, ticks, held, settings, brokers, nextBrokerId, calls>>

\* the ids of a set of rows, newest first (order_by created_at desc)
RECURSIVE NewestFirst(_)
NewestFirst(ids) ==
    IF ids = {} THEN <<>>
    ELSE LET m == CHOOSE i \in ids : \A j \in ids : j <= i
         IN  <<m>> \o NewestFirst(ids \ {m})

\* query.offset(skip).limit(limit)
Page(seq, skip, limit) ==
    SubSeq(seq, skip + 1, IF Len(seq) < skip + limit THEN Len(seq) ELSE skip + limit)

\* UserService.get_users_paginated with a role filter (NoClaim: no filter)
get_users_paginated(skip, limit, role) ==
    LET ids == {i \in DOMAIN users : role = NoClaim \/ users[i].role = role}
        page == Page(NewestFirst(ids), skip, limit)
    IN  [k \in 1..Len(page) |-> UserReadJson(UserRead(page[k]))]

\* list_users without the check of the caller's role
list_users_any_role(credentials, skip, limit, role) ==
    LET c == get_current_active_user(credentials, now)
    IN  /\ resp' = [op |-> "list_users", arg |-> credentials,
                    out |-> IF c.status # 200
                            THEN [status |-> c.status, detail |-> c.detail,
                                  headers |-> c.headers, body |-> <<>>]
                            ELSE [status |-> 200, detail |-> "", headers |-> "",
                                  body |-> get_users_paginated(skip, limit, role)]]
        /\ UNCHANGED <<users, nextId, now, ticks, held, settings, brokers, nextBrokerId, calls>>

\* GET /users/: the active-user dependency, then "Admins only"
list_users(credentials, skip, limit, role) ==
    LET c == get_current_active_user(credentials, now)
    IN  /\ resp' = [op |-> "list_users", arg |-> credentials,
                    out |-> IF c.status # 200
                            THEN [status |-> c.status, detail |-> c.detail,
                                  headers |-> c.headers, body |-> <<>>]
                            ELSE IF c.user.role # "admin"
                            THEN [status |-> 403, detail |-> "Admins only",
                                  headers |-> "", body |-> <<>>]
                            ELSE [status |-> 200, detail |-> "", headers |-> "",
                                  body |-> get_users_paginated(skip, limit, role)]]
        /\ UNCHANGED <<users, nextId, now, ticks, held, settings, brokers, nextBrokerId, calls>>

\* full_name ILIKE %query% OR email ILIKE %query%, for the queries of
\* SearchQueries: every email of Emails contains "k2k", a name contains itself
SearchQueries == {"k", "k2k", "Ann", "Bob"}
QueryLen(query) == IF query = "k" THEN 1 ELSE 3
Matches(row, query) == query \in {"k", "k2k"} \/ row.full_name = query

\* the handler of GET /users/search
search_users(query, skip, limit) ==
    LET ids == {i \in DOMAIN users : Matches(users[i], query)}
        page == Page(NewestFirst(ids), skip, limit)
    IN  /\ resp' = [op |-> "search_users", arg |-> query,
                    out |-> IF QueryLen(query) < 2
                            THEN [status |-> 400,
                                  detail |-> "Query must be at least 2 characters long.",
                                  body |-> <<>>]
                            ELSE [status |-> 200, detail |-> "",
                                  body |-> [k \in 1..Len(page) |->
                                               UserReadJson(UserRead(page[k]))]]]
        /\ UNCHANGED <<users, nextId, now, ticks, held, settings, brokers, nextBrokerId, calls>>

\* get_by_user_id that finds no profile
get_by_user_id_none(user_id) == 0

\* BrokerService.get_by_user_id: the id of the profile of a user, 0 for None
get_by_user_id(user_id) ==
    IF \E b \in DOMAIN brokers : brokers[b].user_id = user_id
    THEN CHOOSE b \in DOMAIN brokers : brokers[b].user_id = user_id
    ELSE 0

\* GET /brokers/user/{user_id}
get_broker_by_user(user_id) ==
    /\ resp' = [op |-> "get_broker_by_user", arg |-> user_id,
                out |-> IF get_by_user_id(user_id) = 0
                        THEN [status |-> 404,
                              detail |-> "No broker profile for this user",
                              body |-> NoBroker]
                        ELSE [status |-> 200, detail |-> "",
                              body |-> brokers[get_by_user_id(user_id)]]]
    /\ UNCHANGED <<users, nextId, now, ticks, held, settings, brokers, nextBrokerId, calls>>

\* license_number is a unique column: another row holds this license
LicenseTaken(license, except) ==
    \E b \in DOMAIN brokers : b # except /\ brokers[b].license_number = license

\* POST /brokers/?user_id=
create_broker_profile(user_id, license, is_verified) ==
    /\ IF user_id \notin DOMAIN users
       THEN /\ resp' = [op |-> "create_broker_profile", arg |-> user_id,
                        out |-> [status |-> 404, detail |-> "User not found"]]
            /\ UNCHANGED <<brokers, nextBrokerId>>
       ELSE IF get_by_user_id(user_id) # 0
       THEN /\ resp' = [op |-> "create_broker_profile", arg |-> user_id,
                        out |-> [status |-> 409,
                                 detail |-> "User already has a broker profile"]]
            /\ UNCHANGED <<brokers, nextBrokerId>>
       ELSE IF LicenseTaken(license, 0)
       THEN /\ resp' = [op |-> "create_broker_profile", arg |-> user_id,
                        out |-> [status |-> 500, detail |-> "Database error"]]
            /\ UNCHANGED <<brokers, nextBrokerId>>
       ELSE /\ nextBrokerId <= MaxBrokers
            /\ brokers' = (nextBrokerId :> [user_id |-> user_id,
                                            license_number |-> license,
                                            is_verified |-> is_verified]) @@ brokers
            /\ nextBrokerId' = nextBrokerId + 1
            /\ resp' = [op |-> "create_broker_profile", arg |-> user_id,
                        out |-> [status |-> 201, detail |-> ""]]
    /\ UNCHANGED <<users, nextId, now, ticks, held, settings, calls>>

\* PATCH /brokers/{broker_id}: the fields that are set are written
update_broker_profile(broker_id, fields, license, is_verified) ==
    /\ IF broker_id \notin DOMAIN brokers
       THEN /\ resp' = [op |-> "update_broker_profile", arg |-> broker_id,
                        out |-> [status |-> 404, detail |-> "Broker profile not found"]]
            /\ UNCHANGED brokers
       ELSE IF "license_number" \in fields /\ LicenseTaken(license, broker_id)
       THEN /\ resp' = [op |-> "update_broker_profile", arg |-> broker_id,
                        out |-> [status |-> 500, detail |-> "Database error"]]
            /\ UNCHANGED brokers
       ELSE /\ brokers' = [brokers EXCEPT ![broker_id] =
                   [user_id |-> @.user_id,
                    license_number |-> IF "license_number" \in fields
                                       THEN license ELSE @.license_number,
                    is_verified |-> IF "is_verified" \in fields
                                    THEN is_verified ELSE @.is_verified]]
            /\ resp' = [op |-> "update_broker_profile", arg |-> broker_id,
                        out |-> [status |-> 200, detail |-> ""]]
    /\ UNCHANGED <<users, nextId, now, ticks, held, settings, nextBrokerId, calls>>

\* a delete of the profile that also withdraws the owner's verified flag
delete_broker_profile_unverifying_owner(broker_id) ==
    /\ IF broker_id \notin DOMAIN brokers
       THEN /\ resp' = [op |-> "delete_broker_profile", arg |-> broker_id,
                        out |-> [status |-> 404, detail |-> "Broker profile not found"]]
            /\ UNCHANGED <<users, brokers>>
       ELSE /\ brokers' = [b \in DOMAIN brokers \ {broker_id} |-> brokers[b]]
            /\ users' = [users EXCEPT ![brokers[broker_id].user_id].verified = FALSE]
            /\ resp' = [op |-> "delete_broker_profile", arg |-> broker_id,
                        out |-> [status |-> 204, detail |-> ""]]
    /\ UNCHANGED <<nextId, now, ticks, held, settings, nextBrokerId, calls>>

\* DELETE /brokers/{broker_id}: the user remains
delete_broker_profile(broker_id) ==
    /\ IF broker_id \notin DOMAIN brokers
       THEN /\ resp' = [op |-> "delete_broker_profile", arg |-> broker_id,
                        out |-> [status |-> 404, detail |-> "Broker profile not found"]]
            /\ UNCHANGED brokers
       ELSE /\ brokers' = [b \in DOMAIN brokers \ {broker_id} |-> brokers[b]]
            /\ resp' = [op |-> "delete_broker_profile", arg |-> broker_id,
                        out |-> [status |-> 204, detail |-> ""]]
    /\ UNCHANGED <<users, nextId, now, ticks, held, settings, nextBrokerId, calls>>

\* verify_password(p1, get_password_hash(p2))
hash_then_verify(p1, p2, salt) ==
    /\ resp' = [op |-> "verify_password",
                arg |-> [plain |-> p1, password |-> p2,
                         hashed |-> get_password_hash(p2, salt)],
                out |-> verify_password(p1, get_password_hash(p2, salt))]
    /\ UNCHANGED <<users, nextId, now, ticks, held, settings, brokers, nextBrokerId, calls>>

\* verify_password(p1, h) for a stored string h that is no hash
verify_malformed(p1, h) ==
    /\ resp' = [op |-> "verify_malformed",
                arg |-> [plain |-> p1, hashed |-> h],
                out |-> verify_password(p1, h)]
    /\ UNCHANGED <<users, nextId, now, ticks, held, settings, brokers, nextBrokerId, calls>>

\* test_broker.py: a row written to the table directly, with
\* password_hash="hash" and the column defaults
seed_user(email, h) ==
    /\ get_user_by_email(email).id = 0
    /\ nextId <= MaxUsers
    /\ users' = (nextId :> [email |-> email, password_hash |-> h, verified |-> FALSE,
                            role |-> "buyer", full_name |-> "Test User"]) @@ users
    /\ nextId' = nextId + 1
    /\ resp' = [op |-> "seed_user", arg |-> email, out |-> [status |-> 0, detail |-> ""]]
    /\ UNCHANGED <<now, ticks, held, settings, brokers, nextBrokerId, calls>>

\* a direct call of verify_token
call_verify_token(token) ==
    /\ resp' = [op |-> "verify_token", arg |-> token,
                out |-> [raised |-> FALSE, value |-> verify_token(token, now)]]
    /\ UNCHANGED <<users, nextId, now, ticks, held, settings, brokers, nextBrokerId, calls>>

\* a direct call of app.core.jwt.decode_access_token
call_decode_access_token(token) ==
    /\ resp' = [op |-> "decode_access_token", arg |-> token,
                out |-> decode_access_token(token, now)]
    /\ UNCHANGED <<users, nextId, now, ticks, held, settings, brokers, nextBrokerId, calls>>

\* the process before app.core.config is imported
NotStarted ==
    [phase |-> "not started", SECRET_KEY |-> "", key_from |-> "none",
     ENVIRONMENT |-> "development"]

\* values of an environment variable: not set, set to nothing, set
Unset == "<unset>"
SecretKeyInputs == {Unset, "", "k3y"}
PostgresServerInputs == {Unset, "", "db"}
Environments == {"development", "production"}
\* values that secrets.token_urlsafe(32) can return
GeneratedKeys == {"r4nd0m-1", "r4nd0m-2"}

\* Settings(): a required field that is not set is a ValidationError; the
\* SECRET_KEY validator runs on the given value, or on the value of the
\* default_factory when none is given, and raises for "" and None
SettingsOutcomes(secret_key, environment, postgres_server) ==
    IF postgres_server = Unset
    THEN {[phase |-> "failed", SECRET_KEY |-> "", key_from |-> "none",
           ENVIRONMENT |-> environment, error |-> "ValidationError"]}
    ELSE IF secret_key = ""
    THEN {[phase |-> "failed", SECRET_KEY |-> "", key_from |-> "none",
           ENVIRONMENT |-> environment, error |-> "ValidationError"]}
    ELSE IF secret_key = Unset
    THEN {[phase |-> "serving", SECRET_KEY |-> k, key_from |-> "generated",
           ENVIRONMENT |-> environment, error |-> ""] : k \in GeneratedKeys}
    ELSE {[phase |-> "serving", SECRET_KEY |-> secret_key, key_from |-> "env",
           ENVIRONMENT |-> environment, error |-> ""]}

\* validate_settings(): RuntimeError for production without a SECRET_KEY and
\* for an empty POSTGRES_SERVER
validate_settings(made, postgres_server) ==
    IF \/ made.ENVIRONMENT = "production" /\ made.SECRET_KEY = ""
       \/ postgres_server = ""
    THEN [made EXCEPT !.phase = "failed", !.error = "RuntimeError"]
    ELSE made

\* the import of app.core.config: settings = Settings(), validate_settings()
startup(secret_key, environment, postgres_server) ==
    /\ settings.phase = "not started"
    /\ \E made \in SettingsOutcomes(secret_key, environment, postgres_server) :
          LET s == IF made.phase = "failed" THEN made
                   ELSE validate_settings(made, postgres_server)
          IN  /\ settings' = [phase |-> s.phase, SECRET_KEY |-> s.SECRET_KEY,
                              key_from |-> s.key_from, ENVIRONMENT |-> s.ENVIRONMENT]
              /\ resp' = [op |-> "startup",
                          arg |-> [SECRET_KEY |-> secret_key,
                                   POSTGRES_SERVER |-> postgres_server],
                          out |-> [status |-> 0, detail |-> s.error]]
    /\ UNCHANGED <<users, nextId, now, ticks, held, brokers, nextBrokerId, calls>>

\* ------------------------------------------------------------------
\* Requests step by step: a coroutine runs from one await to the next, the
\* awaits are the statements sent to the database, and a request can be
\* cancelled while it waits
\* ------------------------------------------------------------------
\* the in-flight requests without request r
Done(r) == [q \in DOMAIN calls \ {r} |-> calls[q]]

\* the slot of the next request: the first one that is free, 0 when none is
FreeSlot ==
    IF ReqIds \subseteq DOMAIN calls THEN 0
    ELSE CHOOSE r \in ReqIds \ DOMAIN calls : \A q \in ReqIds \ DOMAIN calls : r <= q

\* POST /auth/login arrives: login_user awaits get_user_by_email
login_begin(r, email, password) ==
    /\ r \in ReqIds \ DOMAIN calls
    /\ calls' = (r :> [op |-> "login", pc |-> "lookup", email |-> email,
                       password |-> password, found |-> NoUser, lookups |-> 0]) @@ calls
    /\ UNCHANGED <<users, nextId, now, ticks, held, resp, settings, brokers, nextBrokerId>>

\* the database answers the select of get_user_by_email
login_lookup(r) ==
    /\ r \in DOMAIN calls
    /\ calls[r].op = "login"
    /\ calls[r].pc = "lookup"
    /\ calls' = [calls EXCEPT ![r].pc = "found",
                              ![r].found = get_user_by_email(calls[r].email),
                              ![r].lookups = @ + 1]
    /\ UNCHANGED <<users, nextId, now, ticks, held, resp, settings, brokers, nextBrokerId>>

\* login_finish that also stores a fresh hash of the password that verified
login_finish_rehashing(r) ==
    /\ r \in DOMAIN calls
    /\ calls[r].op = "login"
    /\ calls[r].pc = "found"
    /\ LET a == authenticate_found(calls[r].found, calls[r].password)
       IN  /\ resp' = [op |-> "login_user",
                       arg |-> [email |-> calls[r].email, password |-> calls[r].password],
                       out |-> [status |-> IF a.user.id = 0 THEN 401 ELSE 200,
                                log |-> a.log,
                                found |-> calls[r].found.id # 0,
                                verified |-> calls[r].found.verified,
                                lookups |-> calls[r].lookups,
                                verifications |-> a.verifications]]
           /\ users' = IF a.user.id \in DOMAIN users
                       THEN [users EXCEPT ![a.user.id].password_hash =
                                 get_password_hash(calls[r].password, 2)]
                       ELSE users
    /\ calls' = Done(r)
    /\ UNCHANGED <<nextId, now, ticks, held, settings, brokers, nextBrokerId>>

\* the rest of login_user, from the answer of the lookup to the response
login_finish(r) ==
    /\ r \in DOMAIN calls
    /\ calls[r].op = "login"
    /\ calls[r].pc = "found"
    /\ LET a == authenticate_found(calls[r].found, calls[r].password)
       IN  resp' = [op |-> "login_user",
                    arg |-> [email |-> calls[r].email, password |-> calls[r].password],
                    out |-> [status |-> IF a.user.id = 0 THEN 401 ELSE 200,
                             log |-> a.log,
                             found |-> calls[r].found.id # 0,
                             verified |-> calls[r].found.verified,
                             lookups |-> calls[r].lookups,
                             verifications |-> a.verifications]]
    /\ calls' = Done(r)
    /\ UNCHANGED <<users, nextId, now, ticks, held, settings, brokers, nextBrokerId>>

\* a request with a bearer token arrives: get_current_user decodes the token
\* and, with a sub, awaits get_user_by_id
resolve_begin(r, credentials) ==
    /\ r \in ReqIds \ DOMAIN calls
    /\ LET d == IF credentials.kind = "absent"
                THEN [ok |-> FALSE, error |-> "absent"]
                ELSE JwtDecode(credentials, now)
       IN  IF ~d.ok \/ d.payload.sub = NoClaim \/ d.payload.sub = ""
           THEN /\ resp' = [op |-> "get_current_user", arg |-> credentials,
                            out |-> credentials_exception @@ [user |-> NoUser]]
                /\ UNCHANGED calls
           ELSE /\ calls' = (r :> [op |-> "get_current_user", pc |-> "lookup",
                                   credentials |-> credentials, sub |-> d.payload.sub,
                                   found |-> get_user_by_id("")]) @@ calls
                /\ UNCHANGED resp
    /\ UNCHANGED <<users, nextId, now, ticks, held, settings, brokers, nextBrokerId>>

\* the database answers the select of get_user_by_id
resolve_lookup(r) ==
    /\ r \in DOMAIN calls
    /\ calls[r].op = "get_current_user"
    /\ calls[r].pc = "lookup"
    /\ calls' = [calls EXCEPT ![r].pc = "found",
                              ![r].found = get_user_by_id(calls[r].sub)]
    /\ UNCHANGED <<users, nextId, now, ticks, held, resp, settings, brokers, nextBrokerId>>

\* the rest of get_current_user, from the answer of the lookup on
resolve_finish(r) ==
    /\ r \in DOMAIN calls
    /\ calls[r].op = "get_current_user"
    /\ calls[r].pc = "found"
    /\ resp' = [op |-> "get_current_user", arg |-> calls[r].credentials,
                out |-> get_current_user_found(calls[r].found)]
    /\ calls' = Done(r)
    /\ UNCHANGED <<users, nextId, now, ticks, held, settings, brokers, nextBrokerId>>

\* the client goes away or the request times out while the coroutine waits:
\* CancelledError is raised at its await and the request ends there
cancel(r) ==
    /\ r \in DOMAIN calls
    /\ calls[r].op \in {"login", "get_current_user"}
    /\ resp' = [op |-> "cancelled", arg |-> calls[r].op,
                out |-> [status |-> 0, detail |-> calls[r].pc]]
    /\ calls' = Done(r)
    /\ UNCHANGED <<users, nextId, now, ticks, held, settings, brokers, nextBrokerId>>

\* POST /users/ arrives: create_user awaits get_user_by_email
create_user_begin(r, email, password, verified, role, full_name, salt) ==
    /\ r \in ReqIds \ DOMAIN calls
    /\ nextId <= MaxUsers
    /\ calls' = (r :> [op |-> "create_user", pc |-> "check",
                       row |-> [email |-> email,
                                password_hash |-> get_password_hash(password, salt),
                                verified |-> verified, role |-> role,
                                full_name |-> full_name]]) @@ calls
    /\ UNCHANGED <<users, nextId, now, ticks, held, resp, settings, brokers, nextBrokerId>>

\* the database answers the select of the existing-email check: with a row
\* the request ends in the 400, without one the new row is added to the
\* session and create_user awaits the commit
create_user_check(r) ==
    /\ r \in DOMAIN calls
    /\ calls[r].op = "create_user"
    /\ calls[r].pc = "check"
    /\ IF get_user_by_email(calls[r].row.email).id # 0
       THEN /\ resp' = [op |-> "create_user", arg |-> calls[r].row.email,
                        out |-> [status |-> 400, detail |-> "Email already registered.",
                                 body |-> NoBody, rolled_back |-> FALSE]]
            /\ calls' = Done(r)
       ELSE /\ calls' = [calls EXCEPT ![r].pc = "commit"]
            /\ UNCHANGED resp
    /\ UNCHANGED <<users, nextId, now, ticks, held, settings, brokers, nextBrokerId>>

\* the commit on a users table without the unique index on email
create_user_commit_unindexed(r) ==
    /\ r \in DOMAIN calls
    /\ calls[r].op = "create_user"
    /\ calls[r].pc = "commit"
    /\ nextId <= MaxUsers
    /\ users' = (nextId :> calls[r].row) @@ users
    /\ nextId' = nextId + 1
    /\ resp' = [op |-> "create_user", arg |-> calls[r].row.email,
                out |-> [status |-> 201, detail |-> "",
                         body |-> UserReadJson([id |-> nextId] @@ calls[r].row),
                         rolled_back |-> FALSE]]
    /\ calls' = Done(r)
    /\ UNCHANGED <<now, ticks, held, settings, brokers, nextBrokerId>>

\* the database answers the commit: the insert violates the unique index on
\* email when a row with the email has been committed since the check
\* (IntegrityError, rollback, 500), and stores the row otherwise
create_user_commit(r) ==
    /\ r \in DOMAIN calls
    /\ calls[r].op = "create_user"
    /\ calls[r].pc = "commit"
    /\ IF \E i \in DOMAIN users : users[i].email = calls[r].row.email
       THEN /\ resp' = [op |-> "create_user", arg |-> calls[r].row.email,
                        out |-> [status |-> 500, detail |-> "Database error",
                                 body |-> NoBody, rolled_back |-> TRUE]]
            /\ UNCHANGED <<users, nextId>>
       ELSE /\ nextId <= MaxUsers
            /\ users' = (nextId :> calls[r].row) @@ users
            /\ nextId' = nextId + 1
            /\ resp' = [op |-> "create_user", arg |-> calls[r].row.email,
                        out |-> [status |-> 201, detail |-> "",
                                 body |-> UserReadJson([id |-> nextId] @@ calls[r].row),
                                 rolled_back |-> FALSE]]
    /\ calls' = Done(r)
    /\ UNCHANGED <<now, ticks, held, settings, brokers, nextBrokerId>>

\* the response of GET /users/me: the profile, and the identity that the
\* guard had resolved for the handler
MeResponse(status, detail, headers, body, guard) ==
    [status |-> status, detail |-> detail, headers |-> headers, body |-> body,
     guard |-> guard]

\* GET /users/me arrives: get_current_user decodes the token and, with a sub,
\* awaits get_user_by_id
me_begin(r, credentials) ==
    /\ r \in ReqIds \ DOMAIN calls
    /\ LET d == IF credentials.kind = "absent"
                THEN [ok |-> FALSE, error |-> "absent"]
                ELSE JwtDecode(credentials, now)
       IN  IF ~d.ok \/ d.payload.sub = NoClaim \/ d.payload.sub = ""
           THEN /\ resp' = [op |-> "me", arg |-> credentials,
                            out |-> MeResponse(credentials_exception.status,
                                               credentials_exception.detail,
                                               credentials_exception.headers,
                                               NoBody, NoBody)]
                /\ UNCHANGED calls
           ELSE /\ calls' = (r :> [op |-> "me", pc |-> "guard",
                                   credentials |-> credentials, sub |-> d.payload.sub,
                                   current_user |-> NoUser]) @@ calls
                /\ UNCHANGED resp
    /\ UNCHANGED <<users, nextId, now, ticks, held, settings, brokers, nextBrokerId>>

\* the database answers the select of the guard: get_current_user and
\* get_current_active_user end the request, or hand current_user to the
\* handler, which awaits get_user_by_id(current_user.id)
me_guard(r) ==
    /\ r \in DOMAIN calls
    /\ calls[r].op = "me"
    /\ calls[r].pc = "guard"
    /\ LET c == get_current_user_found(get_user_by_id(calls[r].sub))
           a == IF c.status # 200 THEN c
                ELSE IF ~c.user.verified THEN InactiveUser @@ [user |-> NoUser]
                ELSE c
       IN  IF a.status # 200
           THEN /\ resp' = [op |-> "me", arg |-> calls[r].credentials,
                            out |-> MeResponse(a.status, a.detail, a.headers,
                                               NoBody, NoBody)]
                /\ calls' = Done(r)
           ELSE /\ calls' = [calls EXCEPT ![r].pc = "read", ![r].current_user = a.user]
                /\ UNCHANGED resp
    /\ UNCHANGED <<users, nextId, now, ticks, held, settings, brokers, nextBrokerId>>

\* the handler reading the row again by the email of current_user
me_read_by_email(r) ==
    /\ r \in DOMAIN calls
    /\ calls[r].op = "me"
    /\ calls[r].pc = "read"
    /\ LET user == get_user_by_email(calls[r].current_user.email)
       IN  resp' = [op |-> "me", arg |-> calls[r].credentials,
                    out |-> IF user.id = 0
                            THEN MeResponse(500, "Internal Server Error", "", NoBody,
                                            UserReadJson(calls[r].current_user))
                            ELSE MeResponse(200, "", "", UserReadJson(user),
                                            UserReadJson(calls[r].current_user))]
    /\ calls' = Done(r)
    /\ UNCHANGED <<users, nextId, now, ticks, held, settings, brokers, nextBrokerId>>

\* the database answers the select of the handler: the row with the id of
\* current_user is the response; None, when the row is gone, does not validate
\* as the response model UserRead and the response is a 500
me_read(r) ==
    /\ r \in DOMAIN calls
    /\ calls[r].op = "me"
    /\ calls[r].pc = "read"
    /\ LET user == get_user_by_id(UuidStr(calls[r].current_user.id)).user
       IN  resp' = [op |-> "me", arg |-> calls[r].credentials,
                    out |-> IF user.id = 0
                            THEN MeResponse(500, "Internal Server Error", "", NoBody,
                                            UserReadJson(calls[r].current_user))
                            ELSE MeResponse(200, "", "", UserReadJson(user),
                                            UserReadJson(calls[r].current_user))]
    /\ calls' = Done(r)
    /\ UNCHANGED <<users, nextId, now, ticks, held, settings, brokers, nextBrokerId>>

\* the wall clock advances
Tick(d) ==
    /\ ticks < MaxTicks
    /\ now' = now + d
    /\ ticks' = ticks + 1
    /\ resp' = [op |-> "tick", arg |-> "", out |-> [status |-> 0, detail |-> ""]]
    /\ UNCHANGED <<users, nextId, held, settings, brokers, nextBrokerId, calls>>

Init ==
    /\ users = [i \in {} |-> NoUser]
    /\ nextId = 1
    /\ now = 0
    /\ ticks = 0
    /\ held = NoToken
    /\ resp = [op |-> "init", arg |-> "", out |-> [status |-> 0, detail |-> ""]]
    /\ settings = ServingSettings
    /\ brokers = [b \in {} |-> NoBroker]
    /\ nextBrokerId = 1
    /\ calls = NoCalls

\* PATCH bodies: each sets one field, or none, or all of them
UpdateBase == [email |-> "a@k2k", password |-> Pw1, verified |-> FALSE, role |-> "buyer"]
UpdateRequests ==
    { [fields |-> {"email"}, val |-> [UpdateBase EXCEPT !.email = e]] : e \in Emails } \cup
    { [fields |-> {"password"}, val |-> [UpdateBase EXCEPT !.password = p]] : p \in Passwords } \cup
    { [fields |-> {"verified"}, val |-> [UpdateBase EXCEPT !.verified = v]] : v \in BOOLEAN } \cup
    { [fields |-> {"role"}, val |-> [UpdateBase EXCEPT !.role = r]] : r \in Roles } \cup
    { [fields |-> {}, val |-> UpdateBase],
      [fields |-> {"email", "password", "verified", "role"},
       val |-> [email |-> "b@k2k", password |-> Pw2, verified |-> TRUE, role |-> "admin"]] }

\* PATCH bodies that leave the role alone
BuyerUpdateRequests == { u \in UpdateRequests : "role" \notin u.fields }

\* accounts, login, logout and the two identity dependencies over time, with
\* buyer accounts only: tokens come from login
Next ==
    \/ \E e \in Emails, p \in Passwords, v \in BOOLEAN, s \in Salts :
          create_user(e, p, v, "buyer", "Ann", s)
    \/ \E i \in UserIds, u \in BuyerUpdateRequests, s \in Salts :
          update_user(i, u.fields, u.val, s)
    \/ \E i \in UserIds : delete_user(i)
    \/ \E i \in UserIds : verify_user(i)
    \/ \E e \in LoginEmails, p \in Passwords : login(e, p)
    \/ logout
    \/ \E c \in Presentable : resolve(c)
    \/ \E c \in Presentable : resolve_active(c)
    \/ \E d \in TickSteps : Tick(d)

Spec == Init /\ [][Next]_vars

\* accounts of every role and name, and login, at one instant
NextLogin ==
    \/ \E e \in Emails, p \in Passwords, v \in BOOLEAN, r \in Roles,
          n \in FullNames, s \in Salts : create_user(e, p, v, r, n, s)
    \/ \E i \in UserIds, u \in UpdateRequests, s \in Salts :
          update_user(i, u.fields, u.val, s)
    \/ \E i \in UserIds : delete_user(i)
    \/ \E i \in UserIds : verify_user(i)
    \/ \E e \in LoginEmails, p \in Passwords : login(e, p)

SpecLogin == Init /\ [][NextLogin]_vars

\* the token codec called directly, with a store of verified buyers
NextCodec ==
    \/ \E e \in Emails : create_user(e, Pw1, TRUE, "buyer", "Ann", 1)
    \/ \E i \in UserIds : delete_user(i)
    \/ \E d \in TokenDataInputs, x \in Deltas : call_create_access_token(d, x)
    \/ \E d \in TokenDataInputs, x \in Deltas : call_jwt_create_access_token(d, x)
    \/ \E c \in Presentable : resolve(c)
    \/ \E d \in CodecTickSteps : Tick(d)

SpecCodec == Init /\ [][NextCodec]_vars

\* strings handed to a decoder: every bearer string but the absent header
Decodable == Presentable \ {NoCredentials}

\* the two token helpers and the two decoders called directly, over time
NextDecode ==
    \/ \E d \in TokenDataInputs, x \in Deltas : call_create_access_token(d, x)
    \/ \E d \in TokenDataInputs, x \in Deltas : call_jwt_create_access_token(d, x)
    \/ \E c \in Decodable : call_verify_token(c)
    \/ \E c \in Decodable : call_decode_access_token(c)
    \/ \E d \in CodecTickSteps : Tick(d)

SpecDecode == Init /\ [][NextDecode]_vars

\* the process from its start: the settings are made, then requests are served
InitStartup ==
    /\ users = [i \in {} |-> NoUser]
    /\ nextId = 1
    /\ now = 0
    /\ ticks = 0
    /\ held = NoToken
    /\ resp = [op |-> "init", arg |-> "", out |-> [status |-> 0, detail |-> ""]]
    /\ settings = NotStarted
    /\ brokers = [b \in {} |-> NoBroker]
    /\ nextBrokerId = 1
    /\ calls = NoCalls

NextStartup ==
    \/ \E k \in SecretKeyInputs, e \in Environments, d \in PostgresServerInputs :
          startup(k, e, d)
    \/ /\ settings.phase = "serving"
       /\ \/ \E e \in Emails : create_user(e, Pw1, TRUE, "buyer", "Ann", 1)
          \/ \E e \in Emails : login(e, Pw1)
          \/ \E c \in Presentable : resolve(c)

SpecStartup == InitStartup /\ [][NextStartup]_vars

\* PATCH bodies that set the password or the verified flag
SecretUpdateRequests ==
    { u \in UpdateRequests : u.fields = {"password"} \/ u.fields = {"verified"} }

\* licenses of broker profiles
Licenses == {"L1", "L2"}

\* users and their broker profiles
NextBroker ==
    \/ \E e \in Emails : create_user(e, Pw1, FALSE, "buyer", "Ann", 1)
    \/ \E i \in UserIds : delete_user(i)
    \/ \E i \in UserIds, l \in Licenses : create_broker_profile(i, l, FALSE)
    \/ \E b \in BrokerIds, l \in Licenses :
          update_broker_profile(b, {"license_number", "is_verified"}, l, TRUE)
    \/ \E b \in BrokerIds : delete_broker_profile(b)
    \/ \E i \in UserIds : get_broker_by_user(i)

SpecBroker == Init /\ [][NextBroker]_vars

\* login and identity resolution step by step, one at a time, among the
\* requests that write
NextSession ==
    \/ \E e \in Emails, v \in BOOLEAN : create_user(e, Pw1, v, "buyer", "Ann", 1)
    \/ \E i \in UserIds : update_user(i, {"verified"}, UpdateBase, 1)
    \/ \E i \in UserIds : delete_user(i)
    \/ \E e \in Emails : login(e, Pw1)
    \/ calls = NoCalls /\ \E e \in Emails, p \in Passwords : login_begin(FreeSlot, e, p)
    \/ \E r \in ReqIds : login_lookup(r)
    \/ \E r \in ReqIds : login_finish(r)
    \/ calls = NoCalls /\ \E c \in Presentable : resolve_begin(FreeSlot, c)
    \/ \E r \in ReqIds : resolve_lookup(r)
    \/ \E r \in ReqIds : resolve_finish(r)
    \/ \E r \in ReqIds : cancel(r)

SpecSession == Init /\ [][NextSession]_vars

\* registrations step by step, several in flight at once, among updates of
\* the email and deletions
NextRegister ==
    \/ \E e \in Emails : create_user_begin(FreeSlot, e, Pw1, FALSE, "buyer", "Ann", 1)
    \/ \E r \in ReqIds : create_user_check(r)
    \/ \E r \in ReqIds : create_user_commit(r)
    \/ \E i \in UserIds, e \in Emails :
          update_user(i, {"email"}, [UpdateBase EXCEPT !.email = e], 1)
    \/ \E i \in UserIds : delete_user(i)

SpecRegister == Init /\ [][NextRegister]_vars

\* PATCH bodies that move an account to another email or flip its flag
MeUpdateRequests ==
    { [fields |-> {"email"}, val |-> [UpdateBase EXCEPT !.email = e]] : e \in Emails } \cup
    { [fields |-> {"verified"}, val |-> [UpdateBase EXCEPT !.verified = v]] : v \in BOOLEAN }

\* GET /users/me step by step, one at a time, among registrations, updates,
\* deletions and logins
NextMe ==
    \/ \E e \in Emails : create_user(e, Pw1, TRUE, "buyer", "Ann", 1)
    \/ \E i \in UserIds, u \in MeUpdateRequests : update_user(i, u.fields, u.val, 1)
    \/ \E i \in UserIds : delete_user(i)
    \/ \E e \in Emails : login(e, Pw1)
    \/ calls = NoCalls /\ \E c \in Presentable : me_begin(FreeSlot, c)
    \/ \E r \in ReqIds : me_guard(r)
    \/ \E r \in ReqIds : me_read(r)

SpecMe == Init /\ [][NextMe]_vars

\* every operation that writes, with the reads that sign in and resolve, at
\* one instant
NextFrame ==
    \/ \E e \in Emails : create_user(e, Pw1, FALSE, "buyer", "Ann", 1)
    \/ \E i \in UserIds, u \in SecretUpdateRequests : update_user(i, u.fields, u.val, 1)
    \/ \E i \in UserIds : delete_user(i)
    \/ \E i \in UserIds : verify_user(i)
    \/ \E e \in Emails, p \in Passwords : login(e, p)
    \/ logout
    \/ \E c \in Presentable : resolve(c)
    \/ \E i \in UserIds : create_broker_profile(i, "L1", FALSE)
    \/ \E b \in BrokerIds :
          update_broker_profile(b, {"license_number", "is_verified"}, "L1", TRUE)
    \/ \E b \in BrokerIds : delete_broker_profile(b)

SpecFrame == Init /\ [][NextFrame]_vars

\* PATCH bodies that set the verified flag to true
JourneyUpdateRequests == { u \in UpdateRequests : u.fields = {"verified"} /\ u.val.verified }

\* register, sign in and read the own profile, at one instant
NextJourney ==
    \/ \E e \in Emails, p \in Passwords, v \in BOOLEAN :
          create_user(e, p, v, "buyer", "Ann", 1)
    \/ \E i \in UserIds, u \in JourneyUpdateRequests : update_user(i, u.fields, u.val, 1)
    \/ \E i \in UserIds : delete_user(i)
    \/ \E e \in LoginEmails, p \in Passwords : login(e, p)
    \/ \E c \in Presentable : me(c)

SpecJourney == Init /\ [][NextJourney]_vars

\* passwords of a password change: a short one and two long ones that differ
\* after their 72nd byte
ChangePasswords == {Pw1, A72 \o <<"x">>, A72 \o <<"y">>}

\* verified buyers who change their password, log in and present tokens, over
\* time; every hash is made with a salt of its own
NextPassword ==
    \/ \E e \in Emails, p \in ChangePasswords : create_user(e, p, TRUE, "buyer", "Ann", 1)
    \/ \E i \in UserIds, p \in ChangePasswords :
          update_user(i, {"password"}, [UpdateBase EXCEPT !.password = p], 2)
    \/ \E e \in Emails, p \in ChangePasswords : login(e, p)
    \/ \E c \in Presentable : resolve(c)
    \/ \E d \in TickSteps : Tick(d)

SpecPassword == Init /\ [][NextPassword]_vars

\* the password hasher called directly
NextHash ==
    \/ \E p1 \in HashPasswords, p2 \in HashPasswords, s \in HashSalts :
          hash_then_verify(p1, p2, s)
    \/ \E p1 \in HashPasswords, h \in MalformedHashes : verify_malformed(p1, h)

SpecHash == Init /\ [][NextHash]_vars

\* rows with a password_hash that is no hash, among registered rows, and login
NextSeed ==
    \/ \E e \in Emails, h \in MalformedHashes : seed_user(e, h)
    \/ \E e \in Emails, p \in Passwords, v \in BOOLEAN :
          create_user(e, p, v, "buyer", "Ann", 1)
    \/ \E i \in UserIds, u \in SecretUpdateRequests : update_user(i, u.fields, u.val, 1)
    \/ \E i \in UserIds : delete_user(i)
    \/ \E e \in LoginEmails, p \in Passwords : login(e, p)

SpecSeed == Init /\ [][NextSeed]_vars

\* PATCH bodies that set the verified flag only
FlagUpdateRequests == { u \in UpdateRequests : u.fields = {"verified"} }

\* skip and limit of the listing endpoints: the whole list, or its second row
Pages == { [skip |-> 0, limit |-> 10], [skip |-> 1, limit |-> 1] }

\* accounts and every endpoint that answers with user data, at one instant
NextRead ==
    \/ \E e \in Emails, r \in Roles, n \in FullNames : create_user(e, Pw1, TRUE, r, n, 1)
    \/ \E i \in UserIds, u \in FlagUpdateRequests : update_user(i, u.fields, u.val, 1)
    \/ \E i \in UserIds : delete_user(i)
    \/ \E e \in LoginEmails : login(e, Pw1)
    \/ \E c \in Presentable : me(c)
    \/ \E i \in UserIds : read_user(i)
    \/ \E c \in Presentable, p \in Pages, r \in Roles \cup {NoClaim} :
          list_users(c, p.skip, p.limit, r)
    \/ \E q \in SearchQueries, p \in Pages : search_users(q, p.skip, p.limit)

SpecRead == Init /\ [][NextRead]_vars

\* ------------------------------------------------------------------
\* Properties
\* ------------------------------------------------------------------
\* what the caller sees of a failure
Response(out) == [status |-> out.status, detail |-> out.detail, headers |-> out.headers]

\* the claims carried by a token
Claims(token) == [sub |-> token.sub, email |-> token.email, exp |-> token.exp]

\* a row with this email, verified, whose hash the password verifies against
CanLogin(email, password) ==
    \E i \in DOMAIN users :
        /\ users[i].email = email
        /\ users[i].verified
        /\ verify_password(password, users[i].password_hash)

\* the token is one that the server signed
ServerSigned(c) == c.kind = "jwt" /\ c.key = "SECRET_KEY"

\* C1: login_user issues a token only if a row with the given email exists,
\* is verified and the password verifies against its hash; every other login
\* gets the 401 "Incorrect email or password" response and no token.
C1_LoginOnlyForVerifiedMatchingUser ==
    resp.op = "login" =>
        /\ resp.out.access_token.kind # "none"
              => CanLogin(resp.arg.email, resp.arg.password)
        /\ ~CanLogin(resp.arg.email, resp.arg.password)
              => /\ Response(resp.out) = InvalidCredentials
                 /\ resp.out.access_token.kind = "none"

\* an unverified account was presented with its correct password and refused
C1_Witness ==
    /\ resp.op = "login"
    /\ resp.out.status = 401
    /\ \E i \in DOMAIN users :
           /\ users[i].email = resp.arg.email
           /\ ~users[i].verified
           /\ verify_password(resp.arg.password, users[i].password_hash)

\* C2: the response of a failed login is the same whatever the cause: any two
\* login attempts that fail, for whichever of the three causes, get one and
\* the same status, detail and headers.
C2_FailedLoginsIndistinguishable ==
    resp.op = "login" /\ resp.out.status # 200 =>
        \A e \in LoginEmails, p \in Passwords :
            LET other == login_user(e, p, now)
            IN  other.status # 200 => Response(other) = Response(resp.out)

\* a login refused for an unverified account while, in the same store, other
\* logins are refused for an unknown email and for a wrong password
C2_Witness ==
    /\ resp.op = "login"
    /\ resp.out.log = "user not verified"
    /\ \E e \in LoginEmails, p \in Passwords :
           login_user(e, p, now).log = "user not found"
    /\ \E e \in LoginEmails, p \in Passwords :
           login_user(e, p, now).log = "invalid password"

\* C3: a correctly signed, unexpired token whose sub is the id of an existing
\* row makes get_current_user succeed with exactly that row.
C3_ResolvesExactlyTheSubject ==
    resp.op = "get_current_user" /\ ServerSigned(resp.arg) /\ now < resp.arg.exp =>
        \A i \in DOMAIN users :
            UuidStr(i) = resp.arg.sub =>
                resp.out.status = 200 /\ resp.out.user = UserRead(i)

\* a token of one user resolved while another user is in the store too
C3_Witness ==
    /\ resp.op = "get_current_user"
    /\ resp.out.status = 200
    /\ \E i \in DOMAIN users : i # resp.out.user.id
    /\ UuidStr(resp.out.user.id) = resp.arg.sub

\* the subject of the held token was a row when the token was issued and is
\* no row any more
SubjectDeleted ==
    /\ held.kind = "issued"
    /\ held.by = "login"
    /\ \A i \in DOMAIN users : UuidStr(i) # held.token.sub

\* C4: get_current_user fails with the one 401 "Could not validate
\* credentials" response when the credentials are absent, malformed, badly
\* signed, expired or without a sub, and no token makes it fail in another way.
C4_EveryFailureIsUnauthorized ==
    resp.op = "get_current_user" =>
        /\ ( \/ resp.arg.kind # "jwt"
             \/ ~ServerSigned(resp.arg)
             \/ resp.arg.exp < now
             \/ resp.arg.sub \in {NoClaim, ""} )
              => Response(resp.out) = credentials_exception
        /\ resp.out.status # 200 => Response(resp.out) = credentials_exception

\* C5: a token created with expires_delta = T is accepted at every time before
\* issue time + T and rejected, with the empty result, from issue time + T on.
C5_ValidExactlyBeforeIssuePlusTtl ==
    held.kind = "issued" /\ held.by = "auth" /\ held.ttl # NoDelta =>
        /\ now < held.issued_at + held.ttl
              => verify_token(held.token, now) = Claims(held.token)
        /\ now >= held.issued_at + held.ttl
              => verify_token(held.token, now) = EmptyDict

\* C6: no server operation revokes a token: if verify_token returns the claims
\* of the held token before a step and the token has not expired after it,
\* verify_token returns the same claims after the step.
C6_NoOperationRevokes ==
    [][ ( /\ held.kind = "issued"
          /\ held' = held
          /\ verify_token(held.token, now) = Claims(held.token)
          /\ now' < held.token.exp )
        => (verify_token(held.token, now) = Claims(held.token))' ]_vars

\* a login token that still decodes after its user was deleted and time passed
C6_Witness ==
    /\ SubjectDeleted
    /\ held.issued_at < now
    /\ now < held.token.exp
    /\ verify_token(held.token, now) = Claims(held.token)

\* C7: logout leaves the server state as it is, and every credential that
\* get_current_user accepted before the logout is accepted after it.
C7_LogoutChangesNothing ==
    [][ resp'.op = "logout" =>
          /\ users' = users
          /\ nextId' = nextId
          /\ \A c \in Presentable :
                 get_current_user(c, now).status = 200
                    => (get_current_user(c, now).status = 200)' ]_vars

\* a logout answered while the held token is one that get_current_user accepts
C7_Witness ==
    /\ resp.op = "logout"
    /\ held.kind = "issued"
    /\ get_current_user(held.token, now).status = 200

\* C8: once the user a token was issued to is deleted, get_current_user
\* answers that token with the 401 response, while verify_token still
\* returns its claims until it expires.
C8_DeletedSubjectIsUnauthorized ==
    resp.op = "get_current_user" /\ SubjectDeleted /\ resp.arg = held.token =>
        /\ Response(resp.out) = credentials_exception
        /\ resp.out.user.id = 0
        /\ now < held.token.exp
              => verify_token(held.token, now) = Claims(held.token)

\* the token of a deleted user presented before its expiry, with another
\* user in the store
C8_Witness ==
    /\ resp.op = "get_current_user"
    /\ SubjectDeleted
    /\ resp.arg = held.token
    /\ now < held.token.exp
    /\ DOMAIN users # {}

\* C9: get_current_active_user answers 400 "Inactive user" exactly when
\* get_current_user resolved a user whose verified flag is false, returns the
\* resolved user when the flag is true, and passes a 401 on as a 401.
C9_InactiveOnlyAfterAuthentication ==
    resp.op = "get_current_active_user" =>
        LET c == get_current_user(resp.arg, now)
        IN  /\ resp.out.status = 400 <=> (c.status = 200 /\ ~c.user.verified)
            /\ resp.out.status = 400 => Response(resp.out) = InactiveUser
            /\ (c.status = 200 /\ c.user.verified)
                  => resp.out.status = 200 /\ resp.out.user = c.user
            /\ c.status = 401 => Response(resp.out) = credentials_exception

\* a valid token of an account that is not verified gets the 400
C9_Witness ==
    /\ resp.op = "get_current_active_user"
    /\ resp.out.status = 400
    /\ ServerSigned(resp.arg)

\* C10: a login of a verified user with the right password returns token_type
\* bearer, a token with sub = str(id) and email of that user, and the summary
\* {id, email, full_name, role, is_active} of that same row.
C10_LoginResult ==
    resp.op = "login" =>
        \A i \in DOMAIN users :
            ( /\ users[i].email = resp.arg.email
              /\ users[i].verified
              /\ verify_password(resp.arg.password, users[i].password_hash) )
            => /\ resp.out.status = 200
               /\ resp.out.token_type = "bearer"
               /\ verify_token(resp.out.access_token, now).sub = UuidStr(i)
               /\ verify_token(resp.out.access_token, now).email = users[i].email
               /\ resp.out.user = [id |-> UuidStr(i), email |-> users[i].email,
                                   full_name |-> users[i].full_name,
                                   role |-> users[i].role,
                                   is_active |-> users[i].verified]

\* a successful login of an admin while a second, different user exists
C10_Witness ==
    /\ resp.op = "login"
    /\ resp.out.status = 200
    /\ resp.out.user.role = "admin"
    /\ resp.out.user.full_name = "Bob"
    /\ \E i \in DOMAIN users :
           /\ users[i].email # resp.arg.email
           /\ users[i].role = "buyer"
           /\ users[i].full_name = "Ann"

\* C11: no response of create_user, login, /me, get user by id, list or search
\* users, or update_user carries a password_hash.
C11_NoResponseCarriesTheHash ==
    /\ resp.op \in {"create_user", "update_user", "me", "read_user"}
          => "password_hash" \notin DOMAIN resp.out.body
    /\ resp.op \in {"list_users", "search_users"}
          => \A k \in 1..Len(resp.out.body) :
                 "password_hash" \notin DOMAIN resp.out.body[k]
    /\ resp.op = "login"
          => /\ "password_hash" \notin DOMAIN resp.out.user
             /\ "password_hash" \notin DOMAIN resp.out.access_token

\* an admin lists two users, each of which has a hash in the store
C11_Witness ==
    /\ resp.op = "list_users"
    /\ resp.out.status = 200
    /\ Len(resp.out.body) = 2
    /\ \A i \in DOMAIN users : users[i].password_hash.scheme = "bcrypt"

\* the rows present before and after a step on which a field differs
Changed(field) ==
    {i \in DOMAIN users \cap DOMAIN users' : users'[i][field] # users[i][field]}

\* C12 as stated: the password_hash of an existing user never changes and its
\* verified flag changes in verify_user only; update_user changes neither.
C12_OnlyRegistrationAndVerificationWrite ==
    [][/\ Changed("password_hash") = {}
       /\ Changed("verified") # {} => resp'.op = "verify_user"]_vars

\* C12 amended: a password_hash is set by create_user, or by update_user with a
\* password; a verified flag is changed by update_user or verify_user only;
\* login, logout, identity resolution and the broker-profile operations leave
\* both fields of every user unchanged.
C12_OnlyRegistrationUpdateAndVerificationWrite ==
    [][/\ Changed("password_hash") # {} => resp'.op = "update_user"
       /\ Changed("verified") # {} => resp'.op \in {"update_user", "verify_user"}
       /\ DOMAIN users' \ DOMAIN users # {} => resp'.op = "create_user"]_vars

\* a broker profile was written for a user who has a hash and is verified
C12_Witness ==
    /\ resp.op = "update_broker_profile"
    /\ resp.out.status = 200
    /\ users[brokers[resp.arg].user_id].verified
    /\ users[brokers[resp.arg].user_id].password_hash = get_password_hash(Pw2, 1)

\* the row that a successful create_user has just written
Registered == users[CHOOSE i \in DOMAIN users : users[i].email = resp.arg]

\* login with the registered email and the registered password succeeds
RegisteredCanLogin ==
    \A p \in Passwords :
        Registered.password_hash = get_password_hash(p, 1)
            => /\ login_user(resp.arg, p, now).status = 200
               /\ login_user(resp.arg, p, now).user.email = resp.arg

\* /me with the login token of a stored, verified user is that user's profile,
\* and /me with a token that is garbage or does not verify is the 401
ProfileForTheTokenOnly ==
    /\ /\ resp.op = "me"
       /\ held.kind = "issued"
       /\ resp.arg = held.token
       /\ \E i \in DOMAIN users : UuidStr(i) = held.token.sub /\ users[i].verified
       => /\ resp.out.status = 200
          /\ resp.out.body.id = held.token.sub
          /\ \E i \in DOMAIN users : resp.out.body = UserReadJson(UserRead(i))
    /\ /\ resp.op = "me"
       /\ \/ resp.arg = GarbageToken
          \/ held.kind = "issued" /\ resp.arg = Tamper(held.token)
       => /\ resp.out.status = 401
          /\ resp.out.body = NoBody

\* C13 as stated: after any registration login with the registered credentials
\* succeeds; /me with the token is the profile; /me with the token reversed or
\* truncated is the 401.
C13_RegisterLoginProfile ==
    /\ resp.op = "create_user" /\ resp.out.status = 201 => RegisteredCanLogin
    /\ ProfileForTheTokenOnly

\* C13 amended: the same, for a registration whose stored verified flag is true.
C13_VerifiedRegisterLoginProfile ==
    /\ resp.op = "create_user" /\ resp.out.status = 201 /\ Registered.verified
          => RegisteredCanLogin
    /\ ProfileForTheTokenOnly

\* the profile was read with the login token of the user registered as verified
C13_Witness ==
    /\ resp.op = "me"
    /\ resp.out.status = 200
    /\ held.kind = "issued"
    /\ held.by = "login"
    /\ resp.arg = held.token
    /\ resp.out.body.email = held.token.email

\* C14: after verify_user answered 200 for an existing user the stored verified
\* flag of that user is true, and login with the correct password succeeds;
\* for a nonexistent user the answer is 404.
C14_VerifyUserSetsTheStoredFlag ==
    resp.op = "verify_user"
        => IF resp.out.status = 200
           THEN /\ users[resp.arg].verified
                /\ \A p \in Passwords :
                       verify_password(p, users[resp.arg].password_hash)
                           => login_user(users[resp.arg].email, p, now).status = 200
           ELSE resp.out.status = 404 /\ resp.arg \notin DOMAIN users

\* C15: verify_password(p1, get_password_hash(p2)) is true exactly when p1 = p2.
C15_VerifiesExactlyTheHashedPassword ==
    resp.op = "verify_password" => (resp.out <=> resp.arg.plain = resp.arg.password)

\* C16: verify_password answers False for a stored string that is no hash
\* (it raises nothing), and login for a verified user with such a
\* password_hash is the 401 of every failed login, not a server error.
C16_MalformedHashIsAFailedLogin ==
    /\ resp.op = "verify_malformed" => resp.out = FALSE
    /\ \A i \in DOMAIN users, p \in Passwords :
           users[i].password_hash \in MalformedHashes
               => /\ verify_password(p, users[i].password_hash) = FALSE
                  /\ Response(login_user(users[i].email, p, now)) = InvalidCredentials
                  /\ users[i].verified
                         => login_user(users[i].email, p, now).log = "invalid password"
    /\ /\ resp.op = "login"
       /\ \E i \in DOMAIN users : /\ users[i].email = resp.arg.email
                                   /\ users[i].password_hash \in MalformedHashes
       => Response(resp.out) = InvalidCredentials

\* login was attempted for a verified user whose password_hash is "hash"
C16_Witness ==
    /\ resp.op = "login"
    /\ resp.out.status = 401
    /\ \E i \in DOMAIN users : /\ users[i].email = resp.arg.email
                                /\ users[i].verified
                                /\ users[i].password_hash = TestHash

\* the held token is signed by the server and its exp has passed
HeldExpired == held.kind = "issued" /\ JwtDecode(held.token, now).error = "expired"

\* the outcome of a decoder call counts as a value when nothing was raised
DecodedAsValue == resp.out.raised = FALSE

\* C17 as stated: decoding an invalid token raises nothing, and the outcome for
\* an expired token differs from the outcome for a bad signature and for a
\* malformed string.
C17_InvalidIsAValueThatTellsExpiry ==
    /\ /\ resp.op \in {"verify_token", "decode_access_token"}
       /\ ~JwtDecode(resp.arg, now).ok
       => DecodedAsValue
    /\ HeldExpired
       => /\ verify_token(held.token, now) # verify_token(Tamper(held.token), now)
          /\ verify_token(held.token, now) # verify_token(GarbageToken, now)

\* C17 amended: verify_token answers the empty dictionary, as a value, for
\* every invalid token; decode_access_token raises the HTTPException 401
\* "Invalid token or token signature" for every invalid token; neither tells
\* an expired token from one with a bad signature or a malformed string.
C17_InvalidIsOneOutcome ==
    /\ resp.op = "verify_token" /\ ~JwtDecode(resp.arg, now).ok
       => DecodedAsValue /\ resp.out.value = EmptyDict
    /\ resp.op = "decode_access_token" /\ ~JwtDecode(resp.arg, now).ok
       => resp.out = InvalidToken
    /\ HeldExpired
       => /\ verify_token(held.token, now) = verify_token(Tamper(held.token), now)
          /\ verify_token(held.token, now) = verify_token(GarbageToken, now)
          /\ decode_access_token(held.token, now)
                 = decode_access_token(Tamper(held.token), now)
          /\ decode_access_token(held.token, now) = decode_access_token(GarbageToken, now)

\* decode_access_token was called with a server-signed token after its exp
C17_Witness ==
    /\ HeldExpired
    /\ resp.op = "decode_access_token"
    /\ resp.arg = held.token
    /\ held.issued_at < now

\* C18: the decode, before expiry, of a token made by either create_access_token
\* from given claims is exactly those claims plus exp, and when the given sub is
\* the id of a stored user get_current_user resolves the token to that user.
C18_DecodeReturnsTheGivenClaims ==
    held.kind = "issued" /\ held.by \in {"auth", "jwt"} /\ JwtDecode(held.token, now).ok =>
        /\ verify_token(held.token, now).sub = held.data.sub
        /\ verify_token(held.token, now).email = held.data.email
        /\ verify_token(held.token, now).exp = held.token.exp
        /\ decode_access_token(held.token, now).payload.sub = held.data.sub
        /\ \A i \in DOMAIN users :
               held.data.sub = UuidStr(i)
                   => /\ get_current_user(held.token, now).status = 200
                      /\ get_current_user(held.token, now).user.id = i

\* C19: the token issued by login_user, and every token created without an
\* explicit expires_delta, expires ACCESS_TOKEN_EXPIRE_MINUTES of the settings
\* after it was issued.
C19_LifetimeIsTheConfiguredOne ==
    held.kind = "issued" /\ (held.by = "login" \/ held.ttl = NoDelta) =>
        held.token.exp =
            held.issued_at + SETTINGS_ACCESS_TOKEN_EXPIRE_MINUTES * SecondsPerMinute

\* C20: a process whose SECRET_KEY is not set, or set to the empty string,
\* never serves: whenever the process serves, and whenever a token was issued
\* or validated, the signing key is the non-empty key given in the environment.
C20_ServesOnlyWithAConfiguredKey ==
    /\ settings.phase = "serving"
          => settings.key_from = "env" /\ settings.SECRET_KEY # ""
    /\ held.kind = "issued" \/ resp.op \in {"login", "get_current_user"}
          => settings.key_from = "env"
    /\ resp.op = "startup" /\ resp.arg.SECRET_KEY \in {Unset, ""}
          => settings.phase = "failed"

\* the requests that are in flight before or after a step and that the step
\* has begun, moved or ended
Stepped ==
    {r \in DOMAIN calls \cup DOMAIN calls' :
        \/ r \notin DOMAIN calls
        \/ r \notin DOMAIN calls'
        \/ calls'[r] # calls[r]}

\* the step belongs to a login_user or get_current_user call: it begins one,
\* takes it one await further, ends it or cancels it, or runs it whole
SessionStep ==
    \/ \E r \in Stepped :
          IF r \in DOMAIN calls THEN calls[r].op \in {"login", "get_current_user"}
          ELSE calls'[r].op \in {"login", "get_current_user"}
    \/ resp' # resp /\ resp'.op \in {"login", "login_user", "get_current_user", "cancelled"}

C22_OneLookupOneVerification ==
    /\ \A r \in DOMAIN calls :
           calls[r].op = "login"
               => calls[r].lookups = (IF calls[r].pc = "lookup" THEN 0 ELSE 1)
    /\ resp.op = "login_user"
           => /\ resp.out.lookups = 1
              /\ resp.out.verifications \in {0, 1}
              /\ resp.out.verifications = 1 <=> resp.out.found /\ resp.out.verified
              /\ ~resp.out.found
                    => resp.out.status = 401 /\ resp.out.log = "user not found"
              /\ resp.out.found /\ ~resp.out.verified
                    => resp.out.status = 401 /\ resp.out.log = "user not verified"
              /\ resp.out.status = 200 <=> resp.out.log = "authenticated"

\* a login ended at the verified check: the row was found, it is not verified,
\* and no password was verified
C22_Witness ==
    /\ resp.op = "login_user"
    /\ resp.out.found
    /\ ~resp.out.verified
    /\ resp.out.verifications = 0
    /\ resp.out.lookups = 1

\* no two rows of the users table have the same email
UniqueEmails ==
    \A i \in DOMAIN users, j \in DOMAIN users : users[i].email = users[j].email => i = j

\* C23: in every reachable state no two user records have the same email, and
\* create_user with a registered email answers 400 "Email already registered."
\* and adds no record.
C23_EmailsAreUnique ==
    /\ []UniqueEmails
    /\ [][resp'.op = "create_user" /\ (\E i \in DOMAIN users : users[i].email = resp'.arg)
             => /\ resp'.out.status = 400
                /\ resp'.out.detail = "Email already registered."
                /\ users' = users
                /\ nextId' = nextId]_vars

\* a registration was refused for its email while two users are stored
C23_Witness ==
    /\ resp.op = "create_user"
    /\ resp.out.status = 400
    /\ \E i \in DOMAIN users, j \in DOMAIN users : i # j

\* the profiles of user i
ProfilesOf(i) == {b \in DOMAIN brokers : brokers[b].user_id = i}

\* C24: in every reachable state each user has at most one broker profile;
\* create_broker_profile for a user who has a profile answers 409 and leaves
\* the profiles unchanged; a user without a profile reads back as having none.
C24_AtMostOneProfilePerUser ==
    /\ [](\A i \in DOMAIN users : Cardinality(ProfilesOf(i)) <= 1)
    /\ [](resp.op = "get_broker_by_user"
             => (resp.out.status = 404 <=> ProfilesOf(resp.arg) = {}))
    /\ [][resp'.op = "create_broker_profile" /\ resp'.arg \in DOMAIN users
             /\ ProfilesOf(resp'.arg) # {}
             => /\ resp'.out.status = 409
                /\ brokers' = brokers]_vars

\* a second profile was refused for a user who has one, while another user
\* has none
C24_Witness ==
    /\ resp.op = "create_broker_profile"
    /\ resp.out.status = 409
    /\ \E i \in DOMAIN users : ProfilesOf(i) = {}

\* C25: every broker profile references an existing user; create_broker_profile
\* for a nonexistent user answers 404 and creates nothing; deleting a user
\* deletes that user's profile; delete_broker_profile removes the profile only
\* and leaves the user records as they are.
C25_ProfilesReferenceUsers ==
    /\ [](\A b \in DOMAIN brokers : brokers[b].user_id \in DOMAIN users)
    /\ [][/\ resp'.op = "create_broker_profile" /\ resp'.arg \notin DOMAIN users
             => resp'.out.status = 404 /\ brokers' = brokers
          /\ resp'.op = "delete_user" /\ resp'.out.status = 204
             => /\ resp'.arg \notin DOMAIN users'
                /\ \A b \in DOMAIN brokers' : brokers'[b].user_id # resp'.arg
          /\ resp'.op = "delete_broker_profile"
             => /\ users' = users
                /\ (resp'.out.status = 204
                       => DOMAIN brokers' = DOMAIN brokers \ {resp'.arg})]_vars

\* a user who had a profile was deleted and the other user's profile remains
C25_Witness ==
    /\ resp.op = "delete_user"
    /\ resp.out.status = 204
    /\ nextBrokerId > 2
    /\ Cardinality(DOMAIN brokers) = 1

\* the stored users that a bearer string is a valid token for: it is signed by
\* the server, not expired, and its sub is the id of the user
Callers(c) ==
    IF c.kind = "jwt" /\ ServerSigned(c) /\ c.exp >= now
    THEN {i \in DOMAIN users : UuidStr(i) = c.sub}
    ELSE {}

\* C26: list_users returns user records only to a caller with a valid token
\* for an existing, verified admin; a verified non-admin gets 403, an
\* unverified caller 400, a caller with a missing or invalid token 401, and
\* none of these gets a user record.
C26_ListUsersIsForAdmins ==
    resp.op = "list_users" =>
        /\ resp.out.status = 200
              <=> \E i \in Callers(resp.arg) : users[i].verified /\ users[i].role = "admin"
        /\ \A i \in Callers(resp.arg) :
              /\ users[i].verified /\ users[i].role # "admin"
                    => resp.out.status = 403 /\ resp.out.detail = "Admins only"
              /\ ~users[i].verified => Response(resp.out) = InactiveUser
        /\ resp.arg.kind # "jwt" \/ ~ServerSigned(resp.arg)
              => Response(resp.out) = credentials_exception
        /\ resp.out.status # 200 => resp.out.body = <<>>
        /\ \A k \in 1..Len(resp.out.body) :
               \E i \in DOMAIN users : resp.out.body[k] = UserReadJson(UserRead(i))

\* a verified buyer asked for the list while an admin is stored, and got 403
C26_Witness ==
    /\ resp.op = "list_users"
    /\ resp.out.status = 403
    /\ \E i \in DOMAIN users : users[i].role = "admin"

\* C27: immediately after create_user the new account is unverified, whatever
\* the registration request contains, so no login for it succeeds before a
\* verification step.
C27_NewAccountIsUnverified ==
    resp.op = "create_user" /\ resp.out.status = 201
        => /\ ~Registered.verified
           /\ \A p \in Passwords : login_user(resp.arg, p, now).status = 401

\* update_user answered 200 for the verified user i, whose password was old,
\* and stored the hash of the password new
PasswordChanged(i, old, new) ==
    /\ i \in DOMAIN users
    /\ users[i].verified
    /\ verify_password(old, users[i].password_hash)
    /\ old # new
    /\ resp'.op = "update_user" /\ resp'.arg = i /\ resp'.out.status = 200
    /\ users'[i].password_hash # users[i].password_hash
    /\ \E s \in HashSalts : users'[i].password_hash = get_password_hash(new, s)

\* C28: after update_user sets a new password for a verified user, login with
\* the old password fails and login with the new one succeeds, and a token
\* issued to the user before the change is still accepted by get_current_user.
C28_PasswordChangeSwitchesLoginKeepsTokens ==
    [][\A i \in UserIds, old \in ChangePasswords, new \in ChangePasswords :
          PasswordChanged(i, old, new)
              => /\ (login_user(users[i].email, old, now).status = 401)'
                 /\ (login_user(users[i].email, new, now).status = 200)'
                 /\ \/ held.kind = "none"
                    \/ get_current_user(held.token, now).status = 200
                          => (get_current_user(held.token, now).status = 200)']_vars

\* the rows of the users table with the email
RowsWith(email) == {i \in DOMAIN users : users[i].email = email}

\* the step ends the create_user request r
CreateEnds(r) ==
    /\ r \in DOMAIN calls
    /\ calls[r].op = "create_user"
    /\ r \notin DOMAIN calls'

\* C29: when create_user requests with the same email are interleaved, at
\* most one row with the email is created; every other request ends in an
\* error response (the one that had passed the existing-email check in the 500
\* with its transaction rolled back) and adds nothing, so no duplicate remains.
C29_InterleavedRegistrationsCreateOneRow ==
    /\ []UniqueEmails
    /\ [][\A r \in ReqIds :
            CreateEnds(r) =>
                IF resp'.out.status = 201
                THEN /\ RowsWith(calls[r].row.email) = {}
                     /\ users' = (nextId :> calls[r].row) @@ users
                     /\ resp'.out.body = UserReadJson([id |-> nextId] @@ calls[r].row)
                ELSE /\ users' = users
                     /\ nextId' = nextId
                     /\ RowsWith(calls[r].row.email) # {}
                     /\ IF calls[r].pc = "commit"
                        THEN /\ resp'.out.status = 500
                             /\ resp'.out.detail = "Database error"
                             /\ resp'.out.rolled_back
                        ELSE /\ resp'.out.status = 400
                             /\ resp'.out.detail = "Email already registered."]_vars

\* a registration that had passed the existing-email check lost against
\* another one with the same email: it got the 500 and the email has one row
C29_Witness ==
    /\ resp.op = "create_user"
    /\ resp.out.status = 500
    /\ resp.out.rolled_back
    /\ Cardinality(RowsWith(resp.arg)) = 1
    /\ nextId = 2

\* C30: under any interleaving of GET /me with register, update_user and
\* delete_user, a profile returned by /me is that of the user whose id is the
\* sub of the presented token: the identity resolved by the guard and the row
\* read again by the handler are the same user.
C30_MeIsTheTokenSubject ==
    resp.op = "me" =>
        IF resp.out.status = 200
        THEN /\ resp.arg.kind = "jwt"
             /\ ServerSigned(resp.arg)
             /\ resp.out.body.id = resp.arg.sub
             /\ resp.out.guard.id = resp.arg.sub
        ELSE resp.out.body = NoBody

\* /me answered with the profile although the row changed between the read of
\* the guard and the read of the handler
C30_Witness ==
    /\ resp.op = "me"
    /\ resp.out.status = 200
    /\ resp.out.body # resp.out.guard
    /\ resp.out.body.id = resp.arg.sub
    /\ Cardinality(DOMAIN users) = 2
====
